---- MODULE Spec2Model ----
(***************************************************************************)
(* Model of the quic-rpc in-memory transport (src/transport/mem.rs) and of *)
(* the client pattern engine (src/client2.rs).                             *)
(*                                                                         *)
(* The in-memory transport is built on bounded flume channels.  A channel  *)
(* is a record                                                             *)
(*   q        the FIFO of buffered items                                   *)
(*   sending  the items of senders suspended on a full queue               *)
(*   cap      the capacity given to flume::bounded                         *)
(*   tx, rx   whether a sender / a receiver is still alive                 *)
(* The rendezvous queue of connection(buffer) carries the server halves of *)
(* the substreams; every substream owns two message channels.              *)
(***************************************************************************)
EXTENDS Integers, Sequences, FiniteSets, TLC

\* ------------------------------------------------------------------ bounds
NumCalls == 2       \* client tasks, each issuing one call on a clone of the endpoint
MaxBuffer == 1      \* connection(buffer) is called with buffer in 0..MaxBuffer
MaxUpdates == 2     \* updates a caller passes to one UpdateSink
MaxItems == 2       \* items an emitting server handler sends on one substream

\* capacity of each message queue of a substream, flume::bounded(128)
Capacity == 128

Calls == 1..NumCalls
ChanIds == 1..(2 * NumCalls)
Ops == {"rpc", "server_streaming", "client_streaming", "bidi"}
Modes == {"drop", "emit", "sum", "parrot"}
UpdVals == {1, 2}   \* payloads of updates and of responses

VARIABLES
    rv,         \* the rendezvous queue created by connection(buffer)
    chans,      \* ChanIds -> message channel
    nextChan,   \* number of message channels allocated so far
    call,       \* Calls -> client side of a call
    handler,    \* Calls -> server side of an accepted substream, in accept order
    nAccepted,  \* number of substreams accepted so far
    sentLog,    \* ChanIds -> messages accepted by the channel's send half (history)
    recvLog     \* ChanIds -> messages yielded by the channel's receive half (history)

vars == <<rv, chans, nextChan, call, handler, nAccepted, sentLog, recvLog>>

\* ------------------------------------------------------------ flume channel
Min(a, b) == IF a < b THEN a ELSE b

NewChan(cap) == [q |-> <<>>, sending |-> <<>>, cap |-> cap, tx |-> TRUE, rx |-> TRUE]

NoChan == [q |-> <<>>, sending |-> <<>>, cap |-> 0, tx |-> FALSE, rx |-> FALSE]

\* a faulty variant of Disconnected: the drop of the receiver goes unnoticed
DisconnectedSenderOnly(ch) == ~ch.tx

\* flume is_disconnected: every sender or every receiver is gone
Disconnected(ch) == ~ch.tx \/ ~ch.rx

\* moves suspended senders' items into the queue while it holds fewer than cap + extra
PullPending(ch, extra) ==
    LET room == ch.cap + extra - Len(ch.q)
        n == IF room > 0 THEN Min(room, Len(ch.sending)) ELSE 0
    IN [ch EXCEPT !.q = ch.q \o SubSeq(ch.sending, 1, n),
                  !.sending = SubSeq(ch.sending, n + 1, Len(ch.sending))]

\* a faulty variant of FlumeSend: the capacity is not enforced
FlumeSendUnbounded(ch, item) ==
    IF Disconnected(ch) THEN [ch |-> ch, res |-> "err"]
    ELSE [ch |-> [ch EXCEPT !.q = Append(ch.q, item)], res |-> "ok"]

\* a faulty variant of FlumeSend: a disconnected channel still takes the item
FlumeSendNoDisconnect(ch, item) ==
    IF Len(ch.q) < ch.cap
    THEN [ch |-> [ch EXCEPT !.q = Append(ch.q, item)], res |-> "ok"]
    ELSE [ch |-> [ch EXCEPT !.sending = Append(ch.sending, item)], res |-> "blocked"]

\* a faulty variant of FlumeSend: the queue takes one item more than its capacity
FlumeSendLax(ch, item) ==
    IF Disconnected(ch) THEN [ch |-> ch, res |-> "err"]
    ELSE IF Len(ch.q) <= ch.cap
         THEN [ch |-> [ch EXCEPT !.q = Append(ch.q, item)], res |-> "ok"]
         ELSE [ch |-> [ch EXCEPT !.sending = Append(ch.sending, item)], res |-> "blocked"]

\* a faulty variant of FlumeSend: the item is put at the head of the queue
FlumeSendFront(ch, item) ==
    IF Disconnected(ch) THEN [ch |-> ch, res |-> "err"]
    ELSE IF Len(ch.q) < ch.cap
         THEN [ch |-> [ch EXCEPT !.q = <<item>> \o ch.q], res |-> "ok"]
         ELSE [ch |-> [ch EXCEPT !.sending = Append(ch.sending, item)], res |-> "blocked"]

\* the first poll of a send: fails when disconnected, enqueues when there is room,
\* suspends the sender with its item otherwise
FlumeSend(ch, item) ==
    IF Disconnected(ch) THEN [ch |-> ch, res |-> "err"]
    ELSE IF Len(ch.q) < ch.cap
         THEN [ch |-> [ch EXCEPT !.q = Append(ch.q, item)], res |-> "ok"]
         ELSE [ch |-> [ch EXCEPT !.sending = Append(ch.sending, item)], res |-> "blocked"]

RemoveFirst(s, item) ==
    LET idx == {i \in 1..Len(s) : s[i] = item}
        k == CHOOSE i \in idx : \A j \in idx : i <= j
    IN IF idx = {} THEN s ELSE SubSeq(s, 1, k - 1) \o SubSeq(s, k + 1, Len(s))

InSeq(s, item) == \E i \in 1..Len(s) : s[i] = item

\* a later poll of a suspended send: done once a receiver pulled the item into the
\* queue, failed (item returned) once disconnected, pending otherwise
FlumePollQueued(ch, item) ==
    IF ~InSeq(ch.sending, item) THEN [ch |-> ch, res |-> "ok"]
    ELSE IF Disconnected(ch)
         THEN [ch |-> [ch EXCEPT !.sending = RemoveFirst(ch.sending, item)], res |-> "err"]
         ELSE [ch |-> ch, res |-> "pending"]

\* a faulty variant of FlumeRecv: the newest item is taken instead of the oldest
FlumeRecvLast(ch) ==
    LET p == PullPending(ch, 1)
    IN IF Len(p.q) > 0
       THEN [ch |-> [p EXCEPT !.q = SubSeq(p.q, 1, Len(p.q) - 1)], res |-> "item",
             item |-> <<p.q[Len(p.q)]>>]
       ELSE IF Disconnected(ch) THEN [ch |-> p, res |-> "closed", item |-> <<>>]
            ELSE [ch |-> p, res |-> "pending", item |-> <<>>]

\* a faulty variant of FlumeRecv: a disconnected channel ends at once, buffered items are lost
FlumeRecvEager(ch) ==
    LET p == PullPending(ch, 1)
    IN IF Disconnected(ch) THEN [ch |-> p, res |-> "closed", item |-> <<>>]
       ELSE IF Len(p.q) > 0
            THEN [ch |-> [p EXCEPT !.q = Tail(p.q)], res |-> "item", item |-> <<Head(p.q)>>]
            ELSE [ch |-> p, res |-> "pending", item |-> <<>>]

\* a poll of a receive: the oldest buffered item if any, end of stream when the
\* queue is empty and the channel is disconnected, pending otherwise
FlumeRecv(ch) ==
    LET p == PullPending(ch, 1)
    IN IF Len(p.q) > 0
       THEN [ch |-> [p EXCEPT !.q = Tail(p.q)], res |-> "item", item |-> <<Head(p.q)>>]
       ELSE IF Disconnected(ch) THEN [ch |-> p, res |-> "closed", item |-> <<>>]
            ELSE [ch |-> p, res |-> "pending", item |-> <<>>]

\* the last sender is dropped: a suspended send is withdrawn with it
DropSender(ch) == [ch EXCEPT !.tx = FALSE, !.sending = <<>>]

\* the last receiver is dropped
DropReceiver(ch) == PullPending([ch EXCEPT !.rx = FALSE], 0)

\* a faulty variant of RecvStreamPoll: the disconnect is reported as an error item
RecvStreamPollErr(ch) ==
    LET r == FlumeRecv(ch)
    IN IF r.res = "closed" THEN [ch |-> r.ch, res |-> "error", item |-> <<>>] ELSE r

\* RecvStream::poll_next: Some(v) becomes Some(Ok(v)) ("item"), None stays None
\* ("closed"); RecvError has no value, so Some(Err(e)) ("error") is never produced
RecvStreamPoll(ch) ==
    LET r == FlumeRecv(ch)
    IN IF r.res = "item" THEN [ch |-> r.ch, res |-> "item", item |-> r.item]
       ELSE IF r.res = "closed" THEN [ch |-> r.ch, res |-> "closed", item |-> <<>>]
       ELSE [ch |-> r.ch, res |-> "pending", item |-> <<>>]

\* ------------------------------------------------------------------ messages
\* S::Req: the initial request and the updates; "from" records the call that
\* produced the message (history, not read by the program)
Request(c) == [from |-> c, tag |-> "req", val |-> 0]

\* M::Update -> S::Req, the injection of UpdateSink::start_send
InjectUpdate(c, u) == [from |-> c, tag |-> "upd", val |-> u]

\* S::Res: the variant M::Response ("resp") or another variant ("other")
Response(c, tag, v) == [from |-> c, tag |-> tag, val |-> v]

ResKinds == {[tag |-> "resp", val |-> v] : v \in UpdVals} \cup {[tag |-> "other", val |-> 0]}

OkItem(v) == [kind |-> "Ok", val |-> v]
ErrItem(k) == [kind |-> k, val |-> 0]
NoResult == [kind |-> "none", val |-> 0]

\* M::Response::try_from(res), with the error mapped to DowncastError
Project(m) == IF m.tag = "resp" THEN OkItem(m.val) ELSE ErrItem("DowncastError")

\* ------------------------------------------------------------------- state
NoPair == [send |-> 0, recv |-> 0, peer |-> 0]

IdleCall == [op |-> "none", pc |-> "idle", local |-> NoPair, remote |-> NoPair,
             sink |-> "none", rcv |-> "none", hook |-> <<>>,
             result |-> NoResult, resp |-> NoResult, got |-> <<>>, ended |-> FALSE,
             nupd |-> 0, sinkRes |-> "none", fullAt |-> -1]

NoHandler == [mode |-> "none", pc |-> "none", remote |-> NoPair, gotReq |-> FALSE,
              acc |-> 0, out |-> 0, n |-> 0, sawEnd |-> FALSE, hook |-> <<>>,
              late |-> FALSE]

\* connection(buffer), the endpoints handed to the server and to the callers in `who`
Connection(who) ==
    /\ \E b \in 0..MaxBuffer : rv = NewChan(b)
    /\ chans = [k \in ChanIds |-> NoChan]
    /\ nextChan = 0
    /\ call = [c \in Calls |-> IF c \in who THEN IdleCall ELSE [IdleCall EXCEPT !.pc = "off"]]
    /\ handler = [h \in Calls |-> NoHandler]
    /\ nAccepted = 0
    /\ sentLog = [k \in ChanIds |-> <<>>]
    /\ recvLog = [k \in ChanIds |-> <<>>]

\* one caller, any of the four operations
Init == Connection({1})

\* NumCalls callers on clones of the client endpoint
ConcInit == Connection(Calls)

\* --------------------------------------------------------- substream halves
\* a faulty variant of NewChanIds: every open reuses the first pair of queues
NewChanIdsShared(n) == <<1, 2>>

\* the two queues allocated by one MemClientChannel::next
NewChanIds(n) == <<n + 1, n + 2>>

\* SendSink: poll_ready, start_send and poll_flush of one item; hook holds the item
\* of a send that is suspended on a full queue
SinkSend(ch, hook, m) ==
    IF hook = <<>> THEN FlumeSend(ch, m) ELSE FlumePollQueued(ch, hook[1])

\* the close that C6 and C7 expect, for comparison with SinkClose: closing disconnects the
\* send half
SinkCloseDisconnect(ch) == [ch |-> DropSender(ch), res |-> "ok"]

\* SendSink::poll_close: flume's sink only flushes the suspended item, the channel
\* stays connected until the sink itself is dropped
SinkClose(ch) ==
    IF ch.sending = <<>> THEN [ch |-> ch, res |-> "ok"]
    ELSE FlumePollQueued(ch, ch.sending[1])

\* a faulty variant of DropPair: only the send half is released, the receive half leaks
DropPairSendOnly(chs, pair) ==
    [k \in ChanIds |-> IF k = pair.send THEN DropSender(chs[k]) ELSE chs[k]]

\* both halves of a (SendSink, RecvStream) pair are dropped
DropPair(chs, pair) ==
    [k \in ChanIds |->
        IF k = pair.send /\ k = pair.recv THEN DropReceiver(DropSender(chs[k]))
        ELSE IF k = pair.send THEN DropSender(chs[k])
        ELSE IF k = pair.recv THEN DropReceiver(chs[k])
        ELSE chs[k]]

Logged(log, k, m) == [log EXCEPT ![k] = Append(@, m)]

\* ------------------------------------------------------------- client side
\* a faulty variant of OpenOutcome: the open completes although its send is still suspended
OpenOutcomeEager(res) == IF res = "err" THEN "failed" ELSE "ready"

\* a faulty variant of OpenOutcome: a failed send on the rendezvous queue is swallowed
OpenOutcomeNoFail(res) == IF res \in {"ok", "err"} THEN "ready" ELSE "pending"

\* OpenBiFuture::poll: the result of the inner send on the rendezvous queue decides
OpenOutcome(res) ==
    IF res = "ok" THEN "ready" ELSE IF res = "err" THEN "failed" ELSE "pending"

\* a faulty variant of ChanHeld: the substream of a unary call is released once the request is sent
ChanHeldUntilSent(cl) ==
    cl.pc \in {"open_wait", "send"} \/ cl.sink \in {"open", "closed"} \/ cl.rcv = "held"

\* a faulty variant of ChanHeld: a returned response stream or future does not keep the
\* substream, only a running operation or an UpdateSink does
ChanHeldNoStream(cl) ==
    cl.pc \in {"open_wait", "send", "recv"} \/ cl.sink \in {"open", "closed"}

\* the client still owns its substream: as the local chan of a running operation, or
\* through a half returned to the caller (the halves of a split share the substream)
ChanHeld(cl) ==
    cl.pc \in {"open_wait", "send", "recv"} \/ cl.sink \in {"open", "closed"} \/ cl.rcv = "held"

\* a faulty variant of Settle: the halves of a split are owned separately, so that
\* dropping the UpdateSink disconnects the send half
SettleHalves(chs, cl) ==
    IF ~ChanHeld(cl) THEN DropPair(chs, cl.local)
    ELSE IF cl.sink = "dropped" THEN [chs EXCEPT ![cl.local.send] = DropSender(@)]
    ELSE chs

\* the substream is dropped with its last owner
Settle(chs, cl) == IF ChanHeld(cl) THEN chs ELSE DropPair(chs, cl.local)

Returned == [kind |-> "Returned", val |-> 0]

\* what an operation does with chan once the request is sent: rpc awaits the response,
\* server_streaming moves chan into the stream, the others split it
AfterSend(cl) ==
    IF cl.op = "rpc" THEN [cl EXCEPT !.pc = "recv", !.hook = <<>>]
    ELSE IF cl.op = "server_streaming"
         THEN [cl EXCEPT !.pc = "active", !.hook = <<>>, !.rcv = "held", !.result = Returned]
         ELSE [cl EXCEPT !.pc = "active", !.hook = <<>>, !.sink = "open", !.rcv = "held",
                         !.result = Returned]

\* a faulty variant of RpcOutcome: the end of the stream is reported as a projection failure
RpcOutcomeNoEarlyClose(r) ==
    IF r.res = "closed" THEN ErrItem("DowncastError") ELSE Project(r.item[1])

\* rpc: ok_or(EarlyClose), map_err(RecvError), then the projection of the single response
RpcOutcome(r) ==
    IF r.res = "closed" THEN ErrItem("EarlyClose")
    ELSE IF r.res = "error" THEN ErrItem("RecvError")
    ELSE Project(r.item[1])

\* a faulty variant of ClientStreamingOutcome: a message that fails the projection is
\* skipped, and the future reports a stream that ended without a response
ClientStreamingOutcomeSkip(r) ==
    IF r.res = "closed" THEN ErrItem("EarlyClose")
    ELSE IF r.res = "error" THEN ErrItem("RecvError")
    ELSE IF r.item[1].tag = "resp" THEN OkItem(r.item[1].val) ELSE ErrItem("EarlyClose")

\* the response future of client_streaming: ok_or(EarlyClose), then the match on the
\* single item, Err(e) to RecvError(e) and Ok(x) to the projection of x
ClientStreamingOutcome(r) ==
    IF r.res = "closed" THEN ErrItem("EarlyClose")
    ELSE IF r.res = "error" THEN ErrItem("RecvError")
    ELSE Project(r.item[1])

\* a faulty variant of StreamItem: the first projection failure ends the stream
StreamItemFused(r, cl) ==
    IF r.res = "closed" \/ Project(r.item[1]).kind # "Ok"
    THEN [cl EXCEPT !.ended = TRUE]
    ELSE [cl EXCEPT !.got = Append(cl.got, Project(r.item[1]))]

\* one poll of the mapped response stream of server_streaming and bidi
StreamItem(r, cl) ==
    IF r.res = "closed" THEN [cl EXCEPT !.ended = TRUE]
    ELSE IF r.res = "error" THEN [cl EXCEPT !.got = Append(cl.got, ErrItem("RecvError"))]
    ELSE [cl EXCEPT !.got = Append(cl.got, Project(r.item[1]))]

\* MemClientChannel::next and the first poll of the OpenBiFuture; fullAt records, for an
\* open issued while the backlog was full, how many substreams had been accepted (history)
Call(c, op) ==
    /\ call[c].pc = "idle"
    /\ LET ids == NewChanIds(nextChan)
           local == [send |-> ids[1], recv |-> ids[2], peer |-> c]
           remote == [send |-> ids[2], recv |-> ids[1], peer |-> c]
           fresh == [k \in ChanIds |->
                        IF k \in {ids[1], ids[2]} THEN NewChan(Capacity) ELSE chans[k]]
           r == FlumeSend(rv, remote)
           o == OpenOutcome(r.res)
           cl == [call[c] EXCEPT !.op = op, !.local = local, !.remote = remote,
                      !.fullAt = IF Len(rv.q) + Len(rv.sending) >= rv.cap
                                 THEN nAccepted ELSE -1,
                      !.pc = IF o = "ready" THEN "send"
                             ELSE IF o = "failed" THEN "done" ELSE "open_wait",
                      !.result = IF o = "failed" THEN ErrItem("Open") ELSE NoResult]
       IN /\ nextChan' = nextChan + 2
          /\ rv' = r.ch
          /\ call' = [call EXCEPT ![c] = cl]
          /\ chans' = IF o = "failed" THEN DropPair(DropPair(fresh, local), remote)
                      ELSE fresh
    /\ UNCHANGED <<handler, nAccepted, sentLog, recvLog>>

\* a later poll of an OpenBiFuture whose send was suspended on a full rendezvous queue
OpenPoll(c) ==
    /\ call[c].pc = "open_wait"
    /\ LET r == FlumePollQueued(rv, call[c].remote)
           o == OpenOutcome(r.res)
           cl == [call[c] EXCEPT !.pc = IF o = "ready" THEN "send" ELSE "done",
                                 !.result = IF o = "failed" THEN ErrItem("Open") ELSE NoResult]
       IN /\ o # "pending"
          /\ rv' = r.ch
          /\ call' = [call EXCEPT ![c] = cl]
          /\ chans' = IF o = "failed" THEN DropPair(DropPair(chans, cl.local), cl.remote)
                      ELSE chans
    /\ UNCHANGED <<nextChan, handler, nAccepted, sentLog, recvLog>>

\* chan.send(msg).await of the common prologue
SendRequest(c) ==
    /\ call[c].pc = "send"
    /\ LET k == call[c].local.send
           m == Request(c)
           r == SinkSend(chans[k], call[c].hook, m)
           cl == IF r.res = "err"
                 THEN [call[c] EXCEPT !.pc = "done", !.hook = <<>>, !.result = ErrItem("Send")]
                 ELSE IF r.res = "blocked" THEN [call[c] EXCEPT !.hook = <<m>>]
                 ELSE AfterSend(call[c])
       IN /\ r.res # "pending"
          /\ sentLog' = IF call[c].hook = <<>> /\ r.res # "err"
                        THEN Logged(sentLog, k, m) ELSE sentLog
          /\ call' = [call EXCEPT ![c] = cl]
          /\ chans' = Settle([chans EXCEPT ![k] = r.ch], cl)
    /\ UNCHANGED <<rv, nextChan, handler, nAccepted, recvLog>>

\* chan.next().await of rpc, the projection and the drop of chan on return
RpcRecv(c) ==
    /\ call[c].pc = "recv"
    /\ LET k == call[c].local.recv
           r == RecvStreamPoll(chans[k])
           cl == [call[c] EXCEPT !.pc = "done", !.result = RpcOutcome(r)]
       IN /\ r.res # "pending"
          /\ recvLog' = IF r.res = "item" THEN Logged(recvLog, k, r.item[1]) ELSE recvLog
          /\ call' = [call EXCEPT ![c] = cl]
          /\ chans' = Settle([chans EXCEPT ![k] = r.ch], cl)
    /\ UNCHANGED <<rv, nextChan, handler, nAccepted, sentLog>>

\* what a sink operation returns: Err(SendError::ReceiverDropped), Ok(()), or nothing
\* yet while it is suspended
SinkResult(res) == IF res = "err" THEN "err" ELSE IF res = "ok" THEN "ok" ELSE "pending"

\* UpdateSink: send(update).await; sinkRes records what the last operation on the
\* UpdateSink returned
UpdateSinkSend(c, u) ==
    /\ call[c].pc = "active" /\ call[c].sink = "open"
    /\ call[c].hook # <<>> => u = call[c].hook[1].val
    /\ LET k == call[c].local.send
           m == InjectUpdate(c, u)
           r == SinkSend(chans[k], call[c].hook, m)
           cl == [call[c] EXCEPT !.hook = IF r.res = "blocked" THEN <<m>> ELSE <<>>,
                                 !.nupd = IF call[c].hook = <<>> THEN @ + 1 ELSE @,
                                 !.sinkRes = SinkResult(r.res)]
       IN /\ r.res # "pending"
          /\ sentLog' = IF call[c].hook = <<>> /\ r.res # "err"
                        THEN Logged(sentLog, k, m) ELSE sentLog
          /\ call' = [call EXCEPT ![c] = cl]
          /\ chans' = [chans EXCEPT ![k] = r.ch]
    /\ UNCHANGED <<rv, nextChan, handler, nAccepted, recvLog>>

\* the caller passes at most MaxUpdates updates to the UpdateSink
UpdateSend(c, u) ==
    /\ call[c].hook = <<>> => call[c].nupd < MaxUpdates
    /\ UpdateSinkSend(c, u)

\* the caller passes one update more than a queue holds, without waiting for the server
UpdateBurst(c) ==
    /\ call[c].hook = <<>> => call[c].nupd < Capacity + 1
    /\ UpdateSinkSend(c, 1)

\* UpdateSink: close().await
UpdateClose(c) ==
    /\ call[c].pc = "active" /\ call[c].sink = "open" /\ call[c].hook = <<>>
    /\ LET k == call[c].local.send
           r == SinkClose(chans[k])
       IN /\ r.res # "pending"
          /\ call' = [call EXCEPT ![c].sink = "closed", ![c].sinkRes = SinkResult(r.res)]
          /\ chans' = [chans EXCEPT ![k] = r.ch]
    /\ UNCHANGED <<rv, nextChan, handler, nAccepted, sentLog, recvLog>>

\* the caller drops the UpdateSink
DropSink(c) ==
    /\ call[c].pc = "active" /\ call[c].sink \in {"open", "closed"}
    /\ LET cl == [call[c] EXCEPT !.sink = "dropped", !.hook = <<>>]
       IN /\ call' = [call EXCEPT ![c] = cl]
          /\ chans' = Settle(chans, cl)
    /\ UNCHANGED <<rv, nextChan, handler, nAccepted, sentLog, recvLog>>

\* the caller polls the response stream of server_streaming or bidi
StreamNext(c) ==
    /\ call[c].pc = "active" /\ call[c].op \in {"server_streaming", "bidi"}
    /\ call[c].rcv = "held" /\ ~call[c].ended
    /\ LET k == call[c].local.recv
           r == RecvStreamPoll(chans[k])
       IN /\ r.res # "pending"
          /\ recvLog' = IF r.res = "item" THEN Logged(recvLog, k, r.item[1]) ELSE recvLog
          /\ call' = [call EXCEPT ![c] = StreamItem(r, call[c])]
          /\ chans' = [chans EXCEPT ![k] = r.ch]
    /\ UNCHANGED <<rv, nextChan, handler, nAccepted, sentLog>>

\* the caller polls the response future of client_streaming; the future owns the
\* receive half and releases it when it completes
RespPoll(c) ==
    /\ call[c].pc = "active" /\ call[c].op = "client_streaming" /\ call[c].rcv = "held"
    /\ LET k == call[c].local.recv
           r == RecvStreamPoll(chans[k])
           cl == [call[c] EXCEPT !.resp = ClientStreamingOutcome(r), !.rcv = "dropped"]
       IN /\ r.res # "pending"
          /\ recvLog' = IF r.res = "item" THEN Logged(recvLog, k, r.item[1]) ELSE recvLog
          /\ call' = [call EXCEPT ![c] = cl]
          /\ chans' = Settle([chans EXCEPT ![k] = r.ch], cl)
    /\ UNCHANGED <<rv, nextChan, handler, nAccepted, sentLog>>

\* the caller drops the response stream or the response future
DropRecv(c) ==
    /\ call[c].pc = "active" /\ call[c].rcv = "held"
    /\ LET cl == [call[c] EXCEPT !.rcv = "dropped"]
       IN /\ call' = [call EXCEPT ![c] = cl]
          /\ chans' = Settle(chans, cl)
    /\ UNCHANGED <<rv, nextChan, handler, nAccepted, sentLog, recvLog>>

\* the caller drops the future of an operation that is still opening, sending or
\* awaiting the response: a suspended open is withdrawn with its remote pair, and chan,
\* if the future already holds it, is dropped
Cancel(c) ==
    /\ call[c].pc \in {"open_wait", "send", "recv"}
    /\ LET cl == [call[c] EXCEPT !.pc = "cancelled", !.hook = <<>>]
           suspended == call[c].pc = "open_wait" /\ InSeq(rv.sending, call[c].remote)
       IN /\ rv' = IF suspended
                   THEN [rv EXCEPT !.sending = RemoveFirst(rv.sending, call[c].remote)]
                   ELSE rv
          /\ call' = [call EXCEPT ![c] = cl]
          /\ chans' = IF suspended THEN DropPair(DropPair(chans, cl.local), cl.remote)
                      ELSE Settle(chans, cl)
    /\ UNCHANGED <<nextChan, handler, nAccepted, sentLog, recvLog>>

\* ------------------------------------------------------------- server side
\* a faulty variant of AcceptOutcome: an accept on a disconnected queue stays pending
AcceptOutcomeHang(r) == IF r.res = "item" THEN "accepted" ELSE "pending"

\* AcceptBiFuture::poll: the result of the inner receive on the rendezvous queue decides
AcceptOutcome(r) ==
    IF r.res = "item" THEN "accepted"
    ELSE IF r.res = "closed" THEN "RemoteDropped" ELSE "pending"

\* AcceptBiFuture::poll on MemServerChannel::next: the next pair of the rendezvous
\* queue; the handler run on it is one of the scenario servers; late records that the
\* pair was yielded after the client endpoint was dropped (history)
Accept(mode) ==
    /\ rv.rx
    /\ nAccepted < NumCalls
    /\ LET r == FlumeRecv(rv)
       IN /\ r.res = "item"
          /\ rv' = r.ch
          /\ nAccepted' = nAccepted + 1
          /\ handler' = [handler EXCEPT ![nAccepted + 1] =
                            [NoHandler EXCEPT !.mode = mode, !.remote = r.item[1],
                                              !.late = ~rv.tx,
                                              !.pc = IF mode = "drop" THEN "drop" ELSE "recv"]]
    /\ UNCHANGED <<chans, nextChan, call, sentLog, recvLog>>

\* the handler after a message: the first one is the request; the sum server adds an
\* update, the parrot server echoes it, the emitting server starts to emit
OnMessage(hd, m) ==
    IF ~hd.gotReq
    THEN [hd EXCEPT !.gotReq = TRUE, !.pc = IF hd.mode = "emit" THEN "emit" ELSE "recv"]
    ELSE IF hd.mode = "sum" THEN [hd EXCEPT !.acc = @ + m.val]
    ELSE IF hd.mode = "parrot" THEN [hd EXCEPT !.out = m.val, !.pc = "send"]
    ELSE hd

\* the handler at the end of its input: the sum server replies, the others finish
OnEnd(hd) ==
    IF hd.mode = "sum" THEN [hd EXCEPT !.sawEnd = TRUE, !.out = hd.acc, !.pc = "send"]
    ELSE [hd EXCEPT !.sawEnd = TRUE, !.pc = "done"]

SettleHandler(chs, hd) == IF hd.pc = "done" THEN DropPair(chs, hd.remote) ELSE chs

\* a handler polls its receive half
HandlerRecv(h) ==
    /\ handler[h].pc = "recv"
    /\ LET k == handler[h].remote.recv
           r == RecvStreamPoll(chans[k])
           hd == IF r.res \in {"closed", "error"} THEN OnEnd(handler[h])
                 ELSE OnMessage(handler[h], r.item[1])
       IN /\ r.res # "pending"
          /\ recvLog' = IF r.res = "item" THEN Logged(recvLog, k, r.item[1]) ELSE recvLog
          /\ handler' = [handler EXCEPT ![h] = hd]
          /\ chans' = SettleHandler([chans EXCEPT ![k] = r.ch], hd)
    /\ UNCHANGED <<rv, nextChan, call, nAccepted, sentLog>>

\* a handler sends one response on its send half; the sum server returns after it, the
\* parrot server goes back to its input, the emitting server may send more
HandlerSend(h, item) ==
    /\ LET k == handler[h].remote.send
           m == Response(handler[h].remote.peer, item.tag, item.val)
           r == SinkSend(chans[k], handler[h].hook, m)
           hd == IF r.res = "err" THEN [handler[h] EXCEPT !.pc = "done", !.hook = <<>>]
                 ELSE IF r.res = "blocked" THEN [handler[h] EXCEPT !.hook = <<m>>]
                 ELSE [handler[h] EXCEPT !.hook = <<>>, !.n = @ + 1,
                           !.pc = IF handler[h].mode = "sum" THEN "done"
                                  ELSE IF handler[h].mode = "parrot" THEN "recv" ELSE @]
       IN /\ r.res # "pending"
          /\ handler[h].hook # <<>> => handler[h].hook = <<m>>
          /\ sentLog' = IF handler[h].hook = <<>> /\ r.res # "err"
                        THEN Logged(sentLog, k, m) ELSE sentLog
          /\ handler' = [handler EXCEPT ![h] = hd]
          /\ chans' = SettleHandler([chans EXCEPT ![k] = r.ch], hd)
    /\ UNCHANGED <<rv, nextChan, call, nAccepted, recvLog>>

\* the reply of the sum server, or an echo of the parrot server
HandlerReply(h) ==
    /\ handler[h].pc = "send"
    /\ HandlerSend(h, [tag |-> "resp", val |-> handler[h].out])

\* one more item of the emitting server
HandlerEmit(h, item) ==
    /\ handler[h].pc = "emit"
    /\ handler[h].n < MaxItems
    /\ HandlerSend(h, item)

\* a handler returns and drops both halves: at once for the dropping server, after
\* its items for the emitting server
HandlerDrop(h) ==
    /\ handler[h].pc \in {"drop", "emit"}
    /\ handler[h].hook = <<>>
    /\ LET hd == [handler[h] EXCEPT !.pc = "done"]
       IN /\ handler' = [handler EXCEPT ![h] = hd]
          /\ chans' = SettleHandler(chans, hd)
    /\ UNCHANGED <<rv, nextChan, call, nAccepted, sentLog, recvLog>>

\* the emitting server stops sending and reads its input to the end before it returns
HandlerDrain(h) ==
    /\ handler[h].pc = "emit"
    /\ handler[h].hook = <<>>
    /\ handler[h].n > 0
    /\ handler' = [handler EXCEPT ![h].pc = "recv"]
    /\ UNCHANGED <<rv, chans, nextChan, call, nAccepted, sentLog, recvLog>>

\* every clone of the server endpoint is dropped
ServerEndpointDrop ==
    /\ rv.rx
    /\ rv' = DropReceiver(rv)
    /\ UNCHANGED <<chans, nextChan, call, handler, nAccepted, sentLog, recvLog>>

\* AcceptBiFuture::poll that fails: the server task that would have run the next handler
\* gets AcceptBiError::RemoteDropped
AcceptFail ==
    /\ rv.rx
    /\ nAccepted < NumCalls
    /\ handler[nAccepted + 1].pc = "none"
    /\ AcceptOutcome(FlumeRecv(rv)) = "RemoteDropped"
    /\ handler' = [handler EXCEPT ![nAccepted + 1] = [NoHandler EXCEPT !.pc = "accept_err"]]
    /\ UNCHANGED <<rv, chans, nextChan, call, nAccepted, sentLog, recvLog>>

\* a faulty variant of ClientEndpointDrop: the pairs still buffered in the rendezvous
\* queue are discarded with the last client endpoint
ClientEndpointDropLossy ==
    /\ rv.tx
    /\ \A c \in Calls : call[c].pc \notin {"open_wait", "send", "recv"}
    /\ rv' = [DropSender(rv) EXCEPT !.q = <<>>]
    /\ call' = [c \in Calls |->
                   IF call[c].pc = "idle" THEN [call[c] EXCEPT !.pc = "off"] ELSE call[c]]
    /\ UNCHANGED <<chans, nextChan, handler, nAccepted, sentLog, recvLog>>

\* every clone of the client endpoint is dropped; an operation in progress borrows its
\* client, returned sinks, streams and futures do not
ClientEndpointDrop ==
    /\ rv.tx
    /\ \A c \in Calls : call[c].pc \notin {"open_wait", "send", "recv"}
    /\ rv' = DropSender(rv)
    /\ call' = [c \in Calls |->
                   IF call[c].pc = "idle" THEN [call[c] EXCEPT !.pc = "off"] ELSE call[c]]
    /\ UNCHANGED <<chans, nextChan, handler, nAccepted, sentLog, recvLog>>

\* ------------------------------------------------------------ specification
ClientStep ==
    \E c \in Calls :
        \/ \E op \in Ops : Call(c, op)
        \/ OpenPoll(c)
        \/ SendRequest(c)
        \/ RpcRecv(c)
        \/ \E u \in UpdVals : UpdateSend(c, u)
        \/ UpdateClose(c)
        \/ DropSink(c)
        \/ StreamNext(c)
        \/ RespPoll(c)
        \/ DropRecv(c)

ServerStep ==
    \/ \E mode \in Modes : Accept(mode)
    \/ \E h \in Calls : HandlerRecv(h)
    \/ \E h \in Calls : HandlerReply(h)
    \/ \E h \in Calls : \E item \in ResKinds : HandlerEmit(h, item)
    \/ \E h \in Calls : HandlerDrop(h)
    \/ \E h \in Calls : HandlerDrain(h)
    \/ ServerEndpointDrop

Next == ClientStep \/ ServerStep

\* one call of any pattern against any of the scenario servers
Spec == Init /\ [][Next]_vars

\* concurrent unary calls, each answered at most once: the open / accept rendezvous
\* under contention
ConcNext ==
    \/ \E c \in Calls : Call(c, "rpc")
    \/ \E c \in Calls : OpenPoll(c)
    \/ \E c \in Calls : SendRequest(c)
    \/ \E c \in Calls : RpcRecv(c)
    \/ \E mode \in {"drop", "emit"} : Accept(mode)
    \/ \E h \in Calls : HandlerRecv(h)
    \/ \E h \in Calls : handler[h].n = 0 /\ HandlerEmit(h, [tag |-> "resp", val |-> 1])
    \/ \E h \in Calls : HandlerDrop(h)
    \/ ServerEndpointDrop

ConcSpec == ConcInit /\ [][ConcNext]_vars

\* one call of any pattern that the caller may abandon at any point, against a server
\* that answers and then reads its input to the end
AbandonNext ==
    \/ \E c \in Calls : \E op \in Ops : Call(c, op)
    \/ \E c \in Calls : OpenPoll(c)
    \/ \E c \in Calls : SendRequest(c)
    \/ \E c \in Calls : RpcRecv(c)
    \/ \E c \in Calls : \E u \in UpdVals : UpdateSend(c, u)
    \/ \E c \in Calls : DropSink(c)
    \/ \E c \in Calls : DropRecv(c)
    \/ \E c \in Calls : Cancel(c)
    \/ Accept("emit")
    \/ \E h \in Calls : HandlerRecv(h)
    \/ \E h \in Calls : HandlerEmit(h, [tag |-> "resp", val |-> 1])
    \/ \E h \in Calls : HandlerDrain(h)

AbandonSpec == Init /\ [][AbandonNext]_vars

\* callers that open substreams and then drop their endpoints, against a server that
\* keeps accepting
EndpointNext ==
    \/ \E c \in Calls : \E op \in {"rpc", "server_streaming"} : Call(c, op)
    \/ \E c \in Calls : OpenPoll(c)
    \/ \E c \in Calls : SendRequest(c)
    \/ \E c \in Calls : RpcRecv(c)
    \/ Accept("drop")
    \/ AcceptFail
    \/ \E h \in Calls : HandlerDrop(h)
    \/ ClientEndpointDrop

EndpointSpec == ConcInit /\ [][EndpointNext]_vars

\* callers that open the substream of a server-streaming call, keep the returned stream
\* and drop their endpoints, against a server that accepts in a loop until its own
\* endpoint is dropped and keeps the pairs it accepted
DeliveryNext ==
    \/ \E c \in Calls : Call(c, "server_streaming")
    \/ \E c \in Calls : OpenPoll(c)
    \/ \E c \in Calls : SendRequest(c)
    \/ Accept("drop")
    \/ AcceptFail
    \/ ClientEndpointDrop
    \/ ServerEndpointDrop

\* the accept loop of the server is always run again while it can yield a pair
DeliverySpec == ConcInit /\ [][DeliveryNext]_vars /\ WF_vars(Accept("drop"))

\* a client-streaming call whose caller sends faster than the sum server reads
FlowNext ==
    \/ \E c \in Calls : Call(c, "client_streaming")
    \/ \E c \in Calls : OpenPoll(c)
    \/ \E c \in Calls : SendRequest(c)
    \/ \E c \in Calls : UpdateBurst(c)
    \/ Accept("sum")
    \/ \E h \in Calls : HandlerRecv(h)

FlowSpec == Init /\ [][FlowNext]_vars

\* the steps the executor takes on behalf of a caller that awaits
ClientProgress(c) ==
    OpenPoll(c) \/ SendRequest(c) \/ RpcRecv(c) \/ StreamNext(c) \/ RespPoll(c)

\* the steps of the server task that runs handler h
HandlerProgress(h) ==
    \/ HandlerRecv(h)
    \/ HandlerReply(h)
    \/ \E item \in ResKinds : HandlerEmit(h, item)
    \/ HandlerDrop(h)
    \/ HandlerDrain(h)

\* every task that can run is eventually run; what a caller chooses to do with its
\* sink (send, close, drop) and dropping an endpoint are not obligations
FairSpec ==
    /\ Spec
    /\ \A c \in Calls : WF_vars(ClientProgress(c))
    /\ \A h \in Calls : WF_vars(HandlerProgress(h))
    /\ WF_vars(\E mode \in Modes : Accept(mode))

\* ------------------------------------------------------------------ claims
IsPrefix(s, t) == Len(s) <= Len(t) /\ SubSeq(t, 1, Len(s)) = s

Opened(c) == call[c].local # NoPair

OpenCompleted(c) ==
    \/ call[c].pc \in {"send", "recv", "active"}
    \/ call[c].pc = "done" /\ call[c].result.kind # "Open"

OpenFailed(c) == call[c].pc = "done" /\ call[c].result.kind = "Open"

Accepted(c) == \E h \in 1..nAccepted : handler[h].remote = call[c].remote

\* the server accepted the substream of call c and dropped it without sending anything
DroppedUnanswered(c) ==
    \E h \in 1..nAccepted :
        /\ handler[h].remote = call[c].remote
        /\ handler[h].pc = "done"
        /\ sentLog[handler[h].remote.send] = <<>>

\* C1: on every message queue of a substream, in both directions, the messages
\* yielded by the receive half followed by the ones still buffered are, in order, the
\* first messages accepted by the send half: nothing is reordered, duplicated or lost.
C1_DeliveryInSendOrder ==
    \A k \in ChanIds : IsPrefix(recvLog[k] \o chans[k].q, sentLog[k])

\* C1 witness: a substream on which the server received the request and two different
\* updates, and the client received two different responses.
C1_Witness ==
    \E c \in Calls :
        /\ Opened(c)
        /\ Len(recvLog[call[c].local.send]) >= 3
        /\ recvLog[call[c].local.send][2].val # recvLog[call[c].local.send][3].val
        /\ Len(recvLog[call[c].local.recv]) >= 2
        /\ recvLog[call[c].local.recv][1] # recvLog[call[c].local.recv][2]

\* C2: with concurrent opens every substream has its own two queues: a handler only
\* receives messages of the call whose pair it accepted, a caller only receives
\* messages sent to it, every accepted pair is paired with exactly one client pair and
\* no two calls share a queue.
C2_SubstreamIsolation ==
    /\ \A h \in 1..nAccepted :
          /\ \A i \in DOMAIN recvLog[handler[h].remote.recv] :
                recvLog[handler[h].remote.recv][i].from = handler[h].remote.peer
          /\ Cardinality({c \in Calls : /\ call[c].local.send = handler[h].remote.recv
                                        /\ call[c].local.recv = handler[h].remote.send}) = 1
    /\ \A c \in Calls :
          Opened(c) => \A i \in DOMAIN recvLog[call[c].local.recv] :
                          recvLog[call[c].local.recv][i].from = c
    /\ \A c1, c2 \in Calls :
          (c1 # c2 /\ Opened(c1) /\ Opened(c2)) =>
              {call[c1].local.send, call[c1].local.recv}
                  \cap {call[c2].local.send, call[c2].local.recv} = {}

\* C2 witness: two calls were open at once, the one opened second by caller 1, and
\* both received their own response.
C2_Witness ==
    /\ nAccepted >= 2
    /\ handler[1].remote.peer = 2
    /\ handler[2].remote.peer = 1
    /\ call[1].result.kind = "Ok" /\ call[2].result.kind = "Ok"

\* C3 as stated: a unary call whose substream the server accepted and dropped without
\* a reply returns EarlyClose and nothing else.
C3_AlwaysEarlyClose ==
    \A c \in Calls :
        (call[c].op = "rpc" /\ call[c].pc = "done" /\ DroppedUnanswered(c))
            => call[c].result.kind = "EarlyClose"

\* C3 amended: a unary call whose substream the server accepted and dropped without a
\* reply returns EarlyClose when its request was sent before the server dropped the
\* receive half, and Send when the server dropped it first; no other outcome.
C3_EarlyCloseOrSend ==
    \A c \in Calls :
        (call[c].op = "rpc" /\ call[c].pc = "done" /\ DroppedUnanswered(c))
            => call[c].result.kind =
                   IF sentLog[call[c].local.send] = <<>> THEN "Send" ELSE "EarlyClose"

\* C3 witness: a unary call returned EarlyClose after the server dropped its substream.
C3_Witness ==
    \E c \in Calls :
        /\ call[c].op = "rpc" /\ call[c].pc = "done" /\ DroppedUnanswered(c)
        /\ call[c].result.kind = "EarlyClose"

RECURSIVE SumVals(_)
SumVals(msgs) == IF msgs = <<>> THEN 0 ELSE Head(msgs).val + SumVals(Tail(msgs))

ServedBy(c, mode) ==
    \E h \in 1..nAccepted : handler[h].remote = call[c].remote /\ handler[h].mode = mode

Streaming(c) == call[c].op \in {"server_streaming", "bidi"} /\ call[c].pc = "active"

\* the response future of call c completed with Ok of the sum of the updates sent
SumReturned(c) ==
    /\ Opened(c)
    /\ call[c].resp = OkItem(SumVals(sentLog[call[c].local.send]))

\* the response stream of call c yielded Ok of every update sent, in order, and ended
EchoesThenEnd(c) ==
    /\ Opened(c)
    /\ call[c].ended
    /\ Len(call[c].got) = Len(sentLog[call[c].local.send]) - 1
    /\ \A i \in DOMAIN call[c].got :
          call[c].got[i] = OkItem(sentLog[call[c].local.send][i + 1].val)

\* C6: once the UpdateSink of a client-streaming call served by the sum server is
\* closed and the response future is awaited, the future eventually completes with Ok
\* of the sum of the updates (unless the caller drops the future).
C6_ClosedSinkYieldsResponse ==
    \A c \in Calls :
        [](( /\ call[c].op = "client_streaming" /\ call[c].pc = "active"
             /\ call[c].sink = "closed" /\ call[c].rcv = "held"
             /\ ServedBy(c, "sum"))
           => <>(SumReturned(c) \/ (call[c].rcv = "dropped" /\ call[c].resp = NoResult)))

\* C7: once the UpdateSink of a bidi call served by the parrot server is closed, the
\* response stream eventually yields Ok of every update sent, in order, and then ends
\* (unless the caller drops the stream).
C7_ClosedSinkEndsParrot ==
    \A c \in Calls :
        [](( /\ call[c].op = "bidi" /\ call[c].pc = "active"
             /\ call[c].sink = "closed" /\ call[c].rcv = "held"
             /\ ServedBy(c, "parrot"))
           => <>(EchoesThenEnd(c) \/ call[c].rcv = "dropped"))

\* C8: the response stream of a server-streaming or bidi call yields the projections of
\* the items the peer sent, in the peer's send order, and has ended only when the peer
\* has dropped its send half and every item it sent has been yielded.
C8_StreamYieldsAllThenEnds ==
    \A c \in Calls :
        Streaming(c) =>
            LET k == call[c].local.recv
            IN /\ IsPrefix(recvLog[k], sentLog[k])
               /\ call[c].got = [i \in 1..Len(recvLog[k]) |-> Project(recvLog[k][i])]
               /\ call[c].ended => (recvLog[k] = sentLog[k] /\ ~chans[k].tx)

\* C8 witness: a server-streaming call whose peer sent two items and closed has
\* yielded both and then ended.
C8_Witness ==
    \E c \in Calls :
        /\ call[c].op = "server_streaming" /\ call[c].pc = "active"
        /\ call[c].ended /\ Len(call[c].got) >= 2
        /\ call[c].got[1] # call[c].got[2]

\* C9: in a response stream every received item appears at its own position, as Ok of
\* its value when it is the expected variant and as DowncastError otherwise, and the
\* stream has ended only when the transport receive half has ended.
C9_DowncastKeepsStream ==
    \A c \in Calls :
        Streaming(c) =>
            LET k == call[c].local.recv
            IN /\ Len(call[c].got) = Len(recvLog[k])
               /\ \A i \in DOMAIN call[c].got :
                     call[c].got[i] = IF recvLog[k][i].tag = "resp"
                                      THEN OkItem(recvLog[k][i].val)
                                      ELSE ErrItem("DowncastError")
               /\ call[c].ended => (chans[k].q = <<>> /\ ~chans[k].tx)

\* C9 witness: a response stream that yielded a DowncastError, then an Ok item, and
\* ended after the peer closed.
C9_Witness ==
    \E c \in Calls :
        /\ Streaming(c) /\ call[c].ended
        /\ Len(call[c].got) >= 2
        /\ call[c].got[1].kind = "DowncastError"
        /\ call[c].got[2].kind = "Ok"

\* C10: while a unary call is running, the send half of its substream is alive, and the
\* server has observed the end of its receive half only after the call has returned.
C10_SendHalfOutlivesResponse ==
    /\ \A c \in Calls :
          (call[c].op = "rpc" /\ call[c].pc \in {"send", "recv"})
              => chans[call[c].local.send].tx
    /\ \A h \in 1..nAccepted :
          (call[handler[h].remote.peer].op = "rpc" /\ handler[h].sawEnd)
              => call[handler[h].remote.peer].pc = "done"

\* C10 witness: a unary call has returned its response and the server, which kept
\* reading, has then observed the end of the stream.
C10_Witness ==
    \E h \in 1..nAccepted :
        /\ call[handler[h].remote.peer].op = "rpc"
        /\ call[handler[h].remote.peer].result.kind = "Ok"
        /\ handler[h].sawEnd

\* the handler that accepted the substream of call c has observed the end of its input
SawEnd(c) ==
    \E h \in 1..nAccepted : handler[h].remote = call[c].remote /\ handler[h].sawEnd

\* C11: in a server-streaming call, while the caller holds the returned stream the send
\* half is alive and the server has not observed the end of its receive half; once the
\* caller has dropped the stream the send half is disconnected and a poll of the
\* server's receive half is never pending: it yields a buffered message or the end.
C11_StreamAnchorsSendHalf ==
    \A c \in Calls :
        (call[c].op = "server_streaming" /\ call[c].pc = "active") =>
            LET k == call[c].local.send
            IN /\ call[c].rcv = "held" => (chans[k].tx /\ ~SawEnd(c))
               /\ call[c].rcv = "dropped" =>
                      (~chans[k].tx /\ FlumeRecv(chans[k]).res # "pending")

\* C11 witness: the caller received an item of a server-streaming call, dropped the
\* stream, and the server then observed the end of its input.
C11_Witness ==
    \E c \in Calls :
        /\ call[c].op = "server_streaming" /\ call[c].pc = "active"
        /\ call[c].got # <<>>
        /\ call[c].rcv = "dropped"
        /\ SawEnd(c)

\* C12: after the split of a client-streaming or bidi call, while the caller holds the
\* response future or stream the send half stays connected and the server has not
\* observed the end of its receive half, whatever happened to the UpdateSink.
C12_ReceiveSideKeepsSendHalf ==
    \A c \in Calls :
        ( /\ call[c].op \in {"client_streaming", "bidi"}
          /\ call[c].pc = "active" /\ call[c].rcv = "held" )
            => (chans[call[c].local.send].tx /\ ~SawEnd(c))

\* C12 witness: the caller sent an update, dropped the UpdateSink without closing it and
\* still holds the receive side; the server received the update and is waiting for more.
C12_Witness ==
    \E c \in Calls : \E h \in 1..nAccepted :
        /\ call[c].op \in {"client_streaming", "bidi"} /\ call[c].pc = "active"
        /\ call[c].sink = "dropped" /\ call[c].rcv = "held"
        /\ handler[h].remote = call[c].remote /\ handler[h].pc = "recv"
        /\ Len(recvLog[call[c].local.send]) >= 2
        /\ FlumeRecv(chans[call[c].local.send]).res = "pending"

\* the caller has dropped everything it held for call c
Abandoned(c) ==
    /\ Opened(c)
    /\ \/ call[c].pc = "cancelled"
       \/ call[c].pc = "active" /\ call[c].sink \in {"none", "dropped"}
                                /\ call[c].rcv = "dropped"

\* C13: once the caller has abandoned a call, its send half is disconnected, a poll of
\* the server's receive half is never pending and yields exactly the messages already
\* sent before the end, and a send of the server on that substream fails.
C13_AbandonPropagates ==
    \A c \in Calls :
        Abandoned(c) =>
            LET k == call[c].local.send
                j == call[c].local.recv
            IN /\ ~chans[k].tx
               /\ FlumeRecv(chans[k]).res # "pending"
               /\ recvLog[k] \o chans[k].q = sentLog[k]
               /\ SawEnd(c) => recvLog[k] = sentLog[k]
               /\ ~chans[j].rx
               /\ SinkSend(chans[j], <<>>, Response(c, "resp", 1)).res = "err"

\* C13 witness: the future of a unary call was dropped while it awaited the response;
\* the server had received the request and then observed the end of its input.
C13_Witness ==
    \E c \in Calls :
        /\ call[c].op = "rpc" /\ call[c].pc = "cancelled"
        /\ recvLog[call[c].local.send] = <<Request(c)>>
        /\ SawEnd(c)

\* C14: once every clone of the server endpoint is dropped, an open that is issued, or
\* that is still suspended with its pair not taken, fails, and the operation that issued
\* it, whichever of the four, returns its Open error.
C14_OpenFailsWhenServerGone ==
    [][\A c \in Calls :
          ( /\ ~rv.rx
            /\ \/ call[c].pc = "idle"
               \/ call[c].pc = "open_wait" /\ InSeq(rv.sending, call[c].remote)
            /\ call'[c].pc # call[c].pc )
              => ( /\ call'[c].pc = "done"
                   /\ call'[c].op \in Ops
                   /\ call'[c].result = ErrItem("Open") )]_vars

\* C14 witness: an open was suspended, the server endpoint was dropped, and the
\* operation returned Open.
C14_Witness ==
    \E c \in Calls :
        /\ ~rv.rx
        /\ call[c].fullAt >= 0
        /\ OpenFailed(c)

SinkOpStep(c) ==
    /\ call[c].pc = "active" /\ call[c].sink = "open"
    /\ call'[c].nupd # call[c].nupd \/ call'[c].sink = "closed"

\* C16 as stated: on a substream whose paired receive half is dropped every send, flush
\* and close of the UpdateSink fails, and an initial request returns Send.
C16_EverySinkOpFails ==
    [][\A c \in Calls :
          /\ (SinkOpStep(c) /\ ~chans[call[c].local.send].rx)
                => call'[c].sinkRes = "err"
          /\ ( /\ call[c].pc = "send" /\ call'[c].pc # "send"
               /\ ~chans[call[c].local.send].rx )
                => (call'[c].pc = "done" /\ call'[c].result = ErrItem("Send"))]_vars

\* C16 amended: on a substream whose paired receive half is dropped every send of a
\* message fails with ReceiverDropped and the message is not accepted, an initial
\* request returns Send, and a close (or flush) with no message in flight returns Ok.
C16_SendToDroppedReceiverFails ==
    [][\A c \in Calls :
          (Opened(c) /\ ~chans[call[c].local.send].rx) =>
              /\ (SinkOpStep(c) /\ call'[c].nupd # call[c].nupd)
                    => ( /\ call'[c].sinkRes = "err"
                         /\ sentLog'[call[c].local.send] = sentLog[call[c].local.send]
                         /\ chans'[call[c].local.send].q = chans[call[c].local.send].q )
              /\ (SinkOpStep(c) /\ call'[c].nupd = call[c].nupd /\ call[c].hook = <<>>)
                    => call'[c].sinkRes = "ok"
              /\ (call[c].pc = "send" /\ call'[c].pc # "send")
                    => ( /\ call'[c].pc = "done" /\ call'[c].result = ErrItem("Send")
                         /\ sentLog'[call[c].local.send] = <<>> )]_vars

\* C16 witness: the server dropped its receive half and a send on the UpdateSink then
\* failed.
C16_Witness ==
    \E c \in Calls :
        /\ call[c].pc = "active" /\ call[c].sink = "open"
        /\ ~chans[call[c].local.send].rx
        /\ call[c].nupd >= 1
        /\ call[c].sinkRes = "err"

\* C17: an operation that returned Open has sent and received nothing and handed out
\* nothing; one that returned Send has received nothing and handed out nothing; and an
\* operation is awaiting a response, or has handed out a sink, stream or future, only
\* when its open succeeded and its request was accepted as the first message.
C17_SetupErrorStopsCall ==
    \A c \in Calls :
        Opened(c) =>
            LET k == call[c].local.send
                j == call[c].local.recv
                handedOut == call[c].sink # "none" \/ call[c].rcv # "none"
            IN /\ call[c].result.kind = "Open" =>
                     ( /\ call[c].pc = "done" /\ ~handedOut
                       /\ sentLog[k] = <<>> /\ recvLog[j] = <<>> )
               /\ call[c].result.kind = "Send" =>
                     (call[c].pc = "done" /\ ~handedOut /\ recvLog[j] = <<>>)
               /\ (handedOut \/ call[c].pc = "recv" \/ recvLog[j] # <<>>) =>
                     ( /\ Accepted(c) \/ InSeq(rv.q, call[c].remote)
                       /\ sentLog[k] # <<>>
                       /\ sentLog[k][1] = Request(c) )

\* C17 witness: a bidi call whose request could not be sent returned Send.
C17_Witness ==
    \E c \in Calls :
        /\ call[c].op = "bidi"
        /\ call[c].pc = "done"
        /\ call[c].result.kind = "Send"

\* C18: on every message queue the messages accepted and not yet taken are the ones in
\* the queue, never more than the capacity of 128; a further message is held by its
\* suspended sender, only while the queue is full, and its send has not completed.
C18_SendGatedByCapacity ==
    /\ \A k \in ChanIds :
          /\ Len(chans[k].q) <= Capacity
          /\ chans[k].sending # <<>> => Len(chans[k].q) = Capacity
          /\ (chans[k].tx /\ chans[k].rx) =>
                Len(sentLog[k]) = Len(recvLog[k]) + Len(chans[k].q) + Len(chans[k].sending)
    /\ \A c \in Calls :
          Opened(c) =>
              /\ chans[call[c].local.send].sending \in {<<>>, call[c].hook}
              /\ call[c].sinkRes = "ok" => chans[call[c].local.send].sending = <<>>

\* C18 witness: the queue holds 128 messages and the caller is suspended with one more.
C18_Witness ==
    \E c \in Calls :
        /\ Opened(c)
        /\ Len(chans[call[c].local.send].q) = Capacity
        /\ call[c].hook # <<>>
        /\ chans[call[c].local.send].sending = call[c].hook
        /\ call[c].sinkRes = "pending"

\* C19: no poll of a receive half yields an error, and no operation has produced a
\* RecvError: not as the result of a unary call, not as the response of a
\* client-streaming call, not as an item of a response stream.
C19_NoRecvError ==
    \A c \in Calls :
        /\ call[c].result.kind # "RecvError"
        /\ call[c].resp.kind # "RecvError"
        /\ \A i \in DOMAIN call[c].got : call[c].got[i].kind # "RecvError"
        /\ Opened(c) =>
              /\ RecvStreamPoll(chans[call[c].local.recv]).res # "error"
              /\ RecvStreamPoll(chans[call[c].local.send]).res # "error"

\* C19 witness: the response stream of a bidi call yielded an item and then ended with
\* None after the server dropped its send half.
C19_Witness ==
    \E c \in Calls :
        /\ call[c].op = "bidi" /\ call[c].pc = "active"
        /\ call[c].got # <<>>
        /\ call[c].ended
        /\ ~chans[call[c].local.recv].tx

\* C20: on the substream of every call the first message the server receives is the
\* injected request; every later one is an injected update of that call, and the
\* messages received are, once each and in order, the first ones passed to the send
\* half; a unary or server-streaming call sends nothing after its request.
C20_RequestThenUpdates ==
    \A c \in Calls :
        Opened(c) =>
            LET k == call[c].local.send
            IN /\ recvLog[k] # <<>> => recvLog[k][1] = Request(c)
               /\ \A i \in 2..Len(recvLog[k]) :
                     \E u \in UpdVals : recvLog[k][i] = InjectUpdate(c, u)
               /\ IsPrefix(recvLog[k], sentLog[k])
               /\ Len(sentLog[k]) <= 1 + call[c].nupd
               /\ call[c].op \in {"rpc", "server_streaming"} => Len(sentLog[k]) <= 1

\* C20 witness: the server of a bidi call received the request, then the update 2, then
\* the update 1, as the caller passed them.
C20_Witness ==
    \E c \in Calls :
        /\ call[c].op = "bidi"
        /\ recvLog[call[c].local.send]
              = <<Request(c), InjectUpdate(c, 2), InjectUpdate(c, 1)>>

\* the outcome of the single-response operation of call c: the result of rpc, the
\* output of the response future of client_streaming
SingleOutcome(c) == IF call[c].op = "rpc" THEN call[c].result ELSE call[c].resp

\* C21: a unary call and the response future of a client-streaming call take at most one
\* message from the receive half, and none before they complete; once complete the
\* outcome is EarlyClose exactly when the receive half ended with nothing sent by the
\* server, and otherwise it is decided by the first message the server sent:
\* DowncastError when that message is not the response variant, Ok of its payload when it
\* is, whatever the server sent after it; an Err item would be returned as RecvError.
C21_FirstMessageDecides ==
    /\ \A c \in Calls :
          (Opened(c) /\ call[c].op \in {"rpc", "client_streaming"}) =>
              LET j == call[c].local.recv
                  out == SingleOutcome(c)
                  decided == out.kind \notin {"none", "Open", "Send", "Returned"}
              IN /\ Len(recvLog[j]) <= 1
                 /\ ~decided => recvLog[j] = <<>>
                 /\ decided =>
                       /\ out.kind = "EarlyClose" <=> recvLog[j] = <<>>
                       /\ recvLog[j] = <<>> => sentLog[j] = <<>>
                       /\ recvLog[j] # <<>> =>
                             /\ recvLog[j][1] = sentLog[j][1]
                             /\ out = IF sentLog[j][1].tag = "resp"
                                      THEN OkItem(sentLog[j][1].val)
                                      ELSE ErrItem("DowncastError")
    /\ \A r \in {[ch |-> NoChan, res |-> "error", item |-> <<>>]} :
          /\ RpcOutcome(r) = ErrItem("RecvError")
          /\ ClientStreamingOutcome(r) = ErrItem("RecvError")

\* C21 witness: the server of a client-streaming call sent a message of another variant
\* and then a response; the future completed with DowncastError.
C21_Witness ==
    \E c \in Calls :
        /\ call[c].op = "client_streaming"
        /\ Len(sentLog[call[c].local.recv]) = 2
        /\ sentLog[call[c].local.recv][1].tag = "other"
        /\ sentLog[call[c].local.recv][2].tag = "resp"
        /\ call[c].resp = ErrItem("DowncastError")

\* the number of accepts that yielded the server pair of call c
AcceptCount(c) == Cardinality({h \in 1..nAccepted : handler[h].remote = call[c].remote})

\* the number of places the server pair of call c takes in the rendezvous queue
QueuedCount(c) == Cardinality({i \in 1..Len(rv.q) : rv.q[i] = call[c].remote})

\* C22: while a server endpoint is alive the pair of every completed open is either
\* buffered once in the rendezvous queue or was yielded by exactly one accept, also
\* after the client endpoint is dropped, and it is eventually yielded by an accept
\* unless the server endpoint is dropped first; an accept has failed with RemoteDropped
\* only with every client endpoint dropped and the rendezvous queue empty.
C22_QueuedSubstreamsDelivered ==
    /\ [](\A c \in Calls :
             /\ (rv.rx /\ OpenCompleted(c)) => AcceptCount(c) + QueuedCount(c) = 1
             /\ Opened(c) => AcceptCount(c) + QueuedCount(c) <= 1)
    /\ [](\A h \in Calls :
             handler[h].pc = "accept_err" =>
                 (~rv.tx /\ rv.q = <<>> /\ rv.sending = <<>>))
    /\ [](rv.rx /\ (rv.tx \/ rv.q # <<>>) =>
             AcceptOutcome(FlumeRecv(rv)) # "RemoteDropped")
    /\ \A c \in Calls : OpenCompleted(c) ~> (AcceptCount(c) = 1 \/ ~rv.rx)

\* C22 witness: a pair that was buffered in the rendezvous queue when the client endpoint
\* was dropped was then yielded by an accept, and the accept after it failed.
C22_Witness ==
    /\ ~rv.tx /\ rv.rx
    /\ nAccepted >= 1 /\ nAccepted < NumCalls
    /\ handler[nAccepted].late
    /\ \E c \in Calls : handler[nAccepted].remote = call[c].remote
    /\ handler[nAccepted + 1].pc = "accept_err"

====
